---- MODULE Spec2Model ----
(***************************************************************************)
(* A model of the tox 3 plugin of tox-pdm (src/tox_pdm/plugin3.py).        *)
(*                                                                         *)
(* Three groups of hooks are modelled, each under its own specification:   *)
(*   SpecDeps    tox_testenv_install_deps on one environment, called       *)
(*               repeatedly: the install argument vector, the in-place     *)
(*               edit of the groups list, the relocation of scripts;       *)
(*   SpecPkg     tox_package / get_package / acquire_package in several    *)
(*               host-runner processes that contend for the build lock     *)
(*               (SpecPkgFair adds the fairness of running processes);     *)
(*   SpecCreate  tox_testenv_create and the patched                        *)
(*               VirtualEnv.getcommandpath.                                *)
(***************************************************************************)
EXTENDS Naturals, Sequences, FiniteSets

VARIABLES
    \* ---- tox_testenv_install_deps ----
    groups,         \* venv.envconfig.groups, a list of group names
    skip_install,   \* venv.envconfig.skip_install
    os_name,        \* os.name
    deps,           \* venv.get_resolved_dependencies()
    bin_exists,     \* os.path.exists(<lib_path>/bin)
    dir_entries,    \* directory |-> the names of its entries
    first_call,     \* what the first call of the hook did
    last_call,      \* what the latest call of the hook did
    \* ---- tox_package ----
    pc,             \* process |-> where it is in tox_package
    skipsdist,      \* process |-> session.config.skipsdist
    build_env,      \* process |-> <<toxworkdir, isolated_build_env>>
    lock_holder,    \* build environment |-> the process holding its lock
    target_dir,     \* build environment |-> the files of its directory
    session,        \* process |-> the attributes of its session object
    raised,         \* process |-> the exception raised inside its with block
    outcome,        \* process |-> how its latest tox_package call ended
    path,           \* process |-> the artifact acquire_package selected
    session_package,\* process |-> the view create_session_view made of it
    install_command,\* process, venv |-> venv.envconfig.install_command
    venv,           \* process |-> the venv of its latest tox_package call
    ncalls,         \* tox_package calls made so far, over all processes
    nbuilds,        \* process |-> times it entered the locked section
    nbuilt,         \* process |-> times it left that section with a package
    \* ---- tox_testenv_create ----
    patches,        \* the wrappers stacked on VirtualEnv.getcommandpath
    env_files,      \* environment |-> manifest files cloned into it
    pdm_use,        \* environment |-> interpreter registered with pdm
    resolved        \* the latest getcommandpath query and its answer

depsVars == <<groups, skip_install, os_name, deps, bin_exists, dir_entries,
              first_call, last_call>>
pkgVars == <<pc, skipsdist, build_env, lock_holder, target_dir, session,
             raised, outcome, path, session_package, install_command, venv,
             ncalls, nbuilds, nbuilt>>
createVars == <<patches, env_files, pdm_use, resolved>>
vars == <<depsVars, pkgVars, createVars>>

----------------------------------------------------------------------------
(* Bounds *)

MaxGroups == 3

Range(s) == {s[i] : i \in 1..Len(s)}

SeqsUpTo(S, n) == UNION {[1..k -> S] : k \in 0..n}

----------------------------------------------------------------------------
(* tox_testenv_install_deps                                                *)

GroupNames == {"default", "dev", "test"}
ScriptNames == {"pytest", "flake8"}
DepNames == {"coverage"}

option_pdm == "pdm"
venv_path == "/work/.tox/py"

\* list.remove(x): the list without the first occurrence of x
RECURSIVE ListRemove(_, _)
ListRemove(s, x) ==
    IF s = <<>> THEN <<>>
    ELSE IF Head(s) = x THEN Tail(s)
    ELSE <<Head(s)>> \o ListRemove(Tail(s), x)

\* for group in groups: args.extend(["--group", group])
RECURSIVE GroupFlags(_)
GroupFlags(g) ==
    IF g = <<>> THEN <<>>
    ELSE <<"--group", Head(g)>> \o GroupFlags(Tail(g))

\* RunsInstall with the guard dropped: the install block always runs
RunsInstallAlways(g, skip) == TRUE

\* the guard of the install block
RunsInstall(g, skip) == ~skip \/ g # <<>>

\* the groups list after the branch on "default"
GroupsAfter(g) ==
    IF "default" \in Range(g) THEN ListRemove(g, "default") ELSE g

\* the flag appended between the prefix and the group flags
DefaultFlag(g, skip) ==
    IF "default" \in Range(g) THEN <<>>
    ELSE IF skip THEN <<"--no-default">>
    ELSE <<>>

\* the argument vector handed to venv._pcall
InstallArgs(g, skip) ==
    <<option_pdm, "install", "-p", venv_path>>
        \o DefaultFlag(g, skip)
        \o GroupFlags(GroupsAfter(g))
        \o <<"--no-self">>

\* get_env_lib_path and the two directories derived from it
lib_path == "__pypackages__/3/lib"
bin_dir == "__pypackages__/3/lib/bin"
ScriptsDir(os) ==
    IF os = "nt" THEN "__pypackages__/3/Scripts" ELSE "__pypackages__/3/bin"
Dirs == {bin_dir, ScriptsDir("nt"), ScriptsDir("posix")}

\* MoveScripts copying instead of moving: the entries stay in bin_dir
CopyScripts(entries, os) ==
    [entries EXCEPT ![ScriptsDir(os)] = @ \cup entries[bin_dir]]

\* for item in os.listdir(bin_dir): shutil.move(bin_item, scripts_dir/item)
MoveScripts(entries, os) ==
    [entries EXCEPT ![ScriptsDir(os)] = @ \cup entries[bin_dir],
                    ![bin_dir] = {}]

NoArgs == <<>>
NoCall == [result |-> "none"]

\* the other hooks' variables while only these hooks run
QuietDeps ==
    /\ groups = <<>>
    /\ skip_install = FALSE
    /\ os_name = "posix"
    /\ deps = {}
    /\ bin_exists = FALSE
    /\ dir_entries = [d \in Dirs |-> {}]
    /\ first_call = NoCall
    /\ last_call = NoCall

InitDeps ==
    /\ groups \in SeqsUpTo(GroupNames, MaxGroups)
    /\ skip_install \in BOOLEAN
    /\ os_name \in {"nt", "posix"}
    /\ deps \in SUBSET DepNames
    /\ bin_exists \in BOOLEAN
    /\ dir_entries \in [Dirs -> SUBSET ScriptNames]
    /\ dir_entries[bin_dir] \in
          IF bin_exists THEN {{}, {"pytest"}, ScriptNames} ELSE {{}}
    /\ dir_entries[ScriptsDir(os_name)] \subseteq {"pytest"}
    /\ \A d \in Dirs \ {bin_dir, ScriptsDir(os_name)} : dir_entries[d] = {}
    /\ first_call = NoCall
    /\ last_call = NoCall

\* One call of the hook.  pcall_ok and install_ok are the outcomes of
\* venv._pcall and venv._install (each raises on failure); installed are the
\* scripts the installers leave in the tool's private bin directory.
tox_testenv_install_deps(pcall_ok, install_ok, installed) ==
    LET g        == groups
        runs     == RunsInstall(g, skip_install)
        args     == IF runs THEN InstallArgs(g, skip_install) ELSE NoArgs
        failed1  == runs /\ ~pcall_ok
        installs == ~failed1 /\ deps # {}
        failed2  == installs /\ ~install_ok
        added    == IF (runs /\ pcall_ok) \/ (installs /\ install_ok)
                    THEN installed ELSE {}
        existed  == bin_exists \/ added # {}
        listed   == dir_entries[bin_dir] \cup added
        before   == [dir_entries EXCEPT ![bin_dir] = listed]
        result   == IF failed1 \/ failed2 THEN "raised" ELSE "ok"
    IN  /\ groups' = IF runs THEN GroupsAfter(g) ELSE g
        /\ bin_exists' = existed
        /\ dir_entries' = IF result = "ok" /\ existed
                          THEN MoveScripts(before, os_name)
                          ELSE before
        /\ last_call' = [groups |-> g, ran |-> runs, args |-> args,
                         result |-> result, existed |-> existed,
                         listed |-> listed]
        /\ first_call' = IF first_call = NoCall
                         THEN [ran |-> runs, args |-> args, result |-> result]
                         ELSE first_call
        /\ UNCHANGED <<skip_install, os_name, deps>>
        /\ UNCHANGED <<pkgVars, createVars>>

InstallDeps ==
    \E pcall_ok \in BOOLEAN, install_ok \in BOOLEAN,
       installed \in {{}, {"flake8"}} :
        tox_testenv_install_deps(pcall_ok, install_ok, installed)

NextDeps == InstallDeps

----------------------------------------------------------------------------
(* tox_package, get_package, acquire_package                               *)

NumProcs == 2
MaxCalls == 2

Procs == 1..NumProcs
NoProc == 0

Envs == {"py38", "py39"}
\* venv.getsupportedinterpreter()
Interpreter(e) ==
    IF e = "py38" THEN "/usr/bin/python3.8" ELSE "/usr/bin/python3.9"

\* <<toxworkdir, isolated_build_env>>: the lock file and the build directory
\* are both named after this pair
BuildEnvs == {<<"/w/.tox", ".package">>, <<"/v/.tox", ".package">>}
\* lock_file named after the process instead of the build environment
lock_file_per_process(p) ==
    IF p = 1 THEN <<"/w/.tox", ".package">> ELSE <<"/v/.tox", ".package">>
lock_file(p) == build_env[p]
target(p) == build_env[p]

Files == {"proj-1.0.tar.gz", "proj-1.0.log"}
\* what "pdm build" may leave behind: with or without a source archive
BuildOutputs == {{"proj-1.0.log"}, Files}
\* target_dir.visit("*.tar.gz")
visit(files) == files \cap {"proj-1.0.tar.gz"}

NoError == "none"
Unset == [attrs |-> {}]
NoPath == <<>>
NoOutcome == [kind |-> "none"]
Returned(v) == [kind |-> "returned", value |-> v]
Raised(e) == [kind |-> "raised", value |-> e]

\* hasattr_package that never finds the attribute: no memoisation
hasattr_never(p) == FALSE

\* hasattr(session, "package")
hasattr_package(p) == session[p] # Unset

\* for i, arg in enumerate(install_command): replace "python";
\* install_command.extend(["-t", get_env_lib_path(...)])
PatchInstallCommand(cmd, e) ==
    [i \in 1..Len(cmd) |-> IF cmd[i] = "python" THEN Interpreter(e) ELSE cmd[i]]
      \o <<"-t", lib_path>>

\* every process idle in a fresh session
StartPkg ==
    /\ pc = [p \in Procs |-> "idle"]
    /\ lock_holder = [b \in BuildEnvs |-> NoProc]
    /\ session = [p \in Procs |-> Unset]
    /\ raised = [p \in Procs |-> NoError]
    /\ outcome = [p \in Procs |-> NoOutcome]
    /\ path = [p \in Procs |-> NoPath]
    /\ session_package = [p \in Procs |-> NoPath]
    /\ install_command =
          [p \in Procs |-> [e \in Envs |-> <<"python", "-m", "pip", "install">>]]
    /\ venv = [p \in Procs |-> "py38"]
    /\ ncalls = 0
    /\ nbuilds = [p \in Procs |-> 0]
    /\ nbuilt = [p \in Procs |-> 0]

InitPkg ==
    /\ skipsdist \in [Procs -> BOOLEAN]
    /\ build_env \in [Procs -> BuildEnvs]
    /\ build_env[1] = <<"/w/.tox", ".package">>
    /\ \E stale \in {{}, {"proj-1.0.tar.gz"}} :
          target_dir = [b \in BuildEnvs |-> stale]
    /\ StartPkg

QuietPkg ==
    /\ skipsdist = [p \in Procs |-> FALSE]
    /\ build_env = [p \in Procs |-> <<"/w/.tox", ".package">>]
    /\ target_dir = [b \in BuildEnvs |-> {}]
    /\ StartPkg

\* tox_package when the session already has a package: patch the install
\* command and return session.package
ReturnPackage(p, e) ==
    /\ pc[p] = "idle"
    /\ ncalls < MaxCalls
    /\ hasattr_package(p)
    /\ ncalls' = ncalls + 1
    /\ venv' = [venv EXCEPT ![p] = e]
    /\ install_command' =
          [install_command EXCEPT ![p][e] = PatchInstallCommand(@, e)]
    /\ outcome' = [outcome EXCEPT ![p] = Returned(session[p].package)]
    /\ UNCHANGED <<pc, skipsdist, build_env, lock_holder, target_dir, session,
                   raised, path, session_package, nbuilds, nbuilt>>
    /\ UNCHANGED <<depsVars, createVars>>

\* tox_package, no package yet, skipsdist: get_package returns None and the
\* tuple assignment "session.package, session.dist = None" raises TypeError
SkipSdist(p, e) ==
    /\ pc[p] = "idle"
    /\ ncalls < MaxCalls
    /\ ~hasattr_package(p)
    /\ skipsdist[p]
    /\ ncalls' = ncalls + 1
    /\ venv' = [venv EXCEPT ![p] = e]
    /\ outcome' = [outcome EXCEPT ![p] = Raised("TypeError")]
    /\ UNCHANGED <<pc, skipsdist, build_env, lock_holder, target_dir, session,
                   raised, path, session_package, install_command, nbuilds,
                   nbuilt>>
    /\ UNCHANGED <<depsVars, createVars>>

\* tox_package, no package yet: get_package reaches hold_lock
RequestLock(p, e) ==
    /\ pc[p] = "idle"
    /\ ncalls < MaxCalls
    /\ ~hasattr_package(p)
    /\ ~skipsdist[p]
    /\ ncalls' = ncalls + 1
    /\ venv' = [venv EXCEPT ![p] = e]
    /\ pc' = [pc EXCEPT ![p] = "lock"]
    /\ outcome' = [outcome EXCEPT ![p] = NoOutcome]
    /\ raised' = [raised EXCEPT ![p] = NoError]
    /\ UNCHANGED <<skipsdist, build_env, lock_holder, target_dir, session,
                   path, session_package, install_command, nbuilds, nbuilt>>
    /\ UNCHANGED <<depsVars, createVars>>

\* LockFree without the exclusion: the lock is taken whoever holds it
LockFreeAlways(p) == TRUE

\* hold_lock's acquire: an exclusive file lock, taken when nobody holds it
LockFree(p) == lock_holder[lock_file(p)] = NoProc

AcquireLock(p) ==
    /\ pc[p] = "lock"
    /\ LockFree(p)
    /\ lock_holder' = [lock_holder EXCEPT ![lock_file(p)] = p]
    /\ pc' = [pc EXCEPT ![p] = "empty"]
    /\ nbuilds' = [nbuilds EXCEPT ![p] = @ + 1]
    /\ UNCHANGED <<skipsdist, build_env, target_dir, session, raised, outcome,
                   path, session_package, install_command, venv, ncalls,
                   nbuilt>>
    /\ UNCHANGED <<depsVars, createVars>>

\* acquire_package: ensure_empty_dir(target_dir)
EnsureEmptyDir(p) ==
    /\ pc[p] = "empty"
    /\ target_dir' = [target_dir EXCEPT ![target(p)] = {}]
    /\ pc' = [pc EXCEPT ![p] = "create"]
    /\ UNCHANGED <<skipsdist, build_env, lock_holder, session, raised, outcome,
                   path, session_package, install_command, venv, ncalls,
                   nbuilds, nbuilt>>
    /\ UNCHANGED <<depsVars, createVars>>

\* an exception inside the with block: control goes to hold_lock's exit
Unwind(p, e) ==
    /\ raised' = [raised EXCEPT ![p] = e]
    /\ pc' = [pc EXCEPT ![p] = "unlock"]

\* acquire_package: tox_testenv_create(venv, action), whose "pdm use" raises
\* when the subprocess fails
CreateForBuild(p) ==
    /\ pc[p] = "create"
    /\ \/ /\ pc' = [pc EXCEPT ![p] = "build"]
          /\ UNCHANGED raised
       \/ Unwind(p, "InvocationError")
    /\ UNCHANGED <<skipsdist, build_env, lock_holder, target_dir, session,
                   outcome, path, session_package, install_command, venv,
                   ncalls, nbuilds, nbuilt>>
    /\ UNCHANGED <<depsVars, createVars>>

\* acquire_package: "pdm build --no-wheel -d target_dir"; the subprocess
\* leaves files in the directory and may fail
Build(p) ==
    /\ pc[p] = "build"
    /\ \E out \in BuildOutputs :
          target_dir' = [target_dir EXCEPT ![target(p)] = out]
    /\ \/ /\ pc' = [pc EXCEPT ![p] = "visit"]
          /\ UNCHANGED raised
       \/ Unwind(p, "InvocationError")
    /\ UNCHANGED <<skipsdist, build_env, lock_holder, session, outcome, path,
                   session_package, install_command, venv, ncalls, nbuilds,
                   nbuilt>>
    /\ UNCHANGED <<depsVars, createVars>>

\* acquire_package: path = next(target_dir.visit("*.tar.gz"))
Visit(p) ==
    /\ pc[p] = "visit"
    /\ \/ /\ \E f \in visit(target_dir[target(p)]) :
                path' = [path EXCEPT ![p] = <<target(p), f>>]
          /\ pc' = [pc EXCEPT ![p] = "view"]
          /\ UNCHANGED raised
       \/ /\ visit(target_dir[target(p)]) = {}
          /\ Unwind(p, "StopIteration")
          /\ UNCHANGED path
    /\ UNCHANGED <<skipsdist, build_env, lock_holder, target_dir, session,
                   outcome, session_package, install_command, venv, ncalls,
                   nbuilds, nbuilt>>
    /\ UNCHANGED <<depsVars, createVars>>

\* get_package: session_package = create_session_view(package, temp_dir)
CreateSessionView(p) ==
    /\ pc[p] = "view"
    /\ session_package' = [session_package EXCEPT ![p] = <<"temp_dir", path[p]>>]
    /\ pc' = [pc EXCEPT ![p] = "unlock"]
    /\ UNCHANGED <<skipsdist, build_env, lock_holder, target_dir, session,
                   raised, outcome, path, install_command, venv, ncalls,
                   nbuilds, nbuilt>>
    /\ UNCHANGED <<depsVars, createVars>>

\* ReleaseLock that leaves the lock held
ReleaseLockNever(p) == lock_holder

\* hold_lock's exit, taken on return and on an exception alike
ReleaseLock(p) ==
    [lock_holder EXCEPT ![lock_file(p)] = NoProc]

\* leaving the with block with a package: tox_package records it on the
\* session, patches the install command and returns session.package
LeaveWithPackage(p) ==
    /\ pc[p] = "unlock"
    /\ raised[p] = NoError
    /\ lock_holder' = ReleaseLock(p)
    /\ session' = [session EXCEPT ![p] =
                      [attrs |-> {"package", "dist"},
                       package |-> session_package[p], dist |-> path[p]]]
    /\ install_command' =
          [install_command EXCEPT ![p][venv[p]] = PatchInstallCommand(@, venv[p])]
    /\ outcome' = [outcome EXCEPT ![p] = Returned(session_package[p])]
    /\ nbuilt' = [nbuilt EXCEPT ![p] = @ + 1]
    /\ pc' = [pc EXCEPT ![p] = "idle"]
    /\ path' = [path EXCEPT ![p] = NoPath]
    /\ session_package' = [session_package EXCEPT ![p] = NoPath]
    /\ UNCHANGED <<skipsdist, build_env, target_dir, raised, venv, ncalls,
                   nbuilds>>
    /\ UNCHANGED <<depsVars, createVars>>

\* leaving the with block on an exception: it propagates out of get_package
\* and tox_package, which assigns nothing
LeaveRaising(p) ==
    /\ pc[p] = "unlock"
    /\ raised[p] # NoError
    /\ lock_holder' = ReleaseLock(p)
    /\ outcome' = [outcome EXCEPT ![p] = Raised(raised[p])]
    /\ pc' = [pc EXCEPT ![p] = "idle"]
    /\ UNCHANGED <<skipsdist, build_env, target_dir, session, raised, path,
                   session_package, install_command, venv, ncalls, nbuilds,
                   nbuilt>>
    /\ UNCHANGED <<depsVars, createVars>>

\* the steps a running process takes by itself
Run(p) ==
    \/ AcquireLock(p)
    \/ EnsureEmptyDir(p)
    \/ CreateForBuild(p)
    \/ Build(p)
    \/ Visit(p)
    \/ CreateSessionView(p)
    \/ LeaveWithPackage(p)
    \/ LeaveRaising(p)

NextPkg ==
    \/ \E p \in Procs, e \in Envs : ReturnPackage(p, e)
    \/ \E p \in Procs, e \in Envs : SkipSdist(p, e)
    \/ \E p \in Procs, e \in Envs : RequestLock(p, e)
    \/ \E p \in Procs : AcquireLock(p)
    \/ \E p \in Procs : EnsureEmptyDir(p)
    \/ \E p \in Procs : CreateForBuild(p)
    \/ \E p \in Procs : Build(p)
    \/ \E p \in Procs : Visit(p)
    \/ \E p \in Procs : CreateSessionView(p)
    \/ \E p \in Procs : LeaveWithPackage(p)
    \/ \E p \in Procs : LeaveRaising(p)

----------------------------------------------------------------------------
(* tox_testenv_create and VirtualEnv.getcommandpath                        *)

MaxCreates == 4

Manifests == {"pyproject.toml", "pdm.lock"}
Commands == {"python", "pip"}
NoQuery == [cmd |-> "none"]
Unregistered == "none"

\* the host's own VirtualEnv.getcommandpath: the command in the
\* environment's bin directory
HostCommandPath(e, cmd) ==
    CASE e = "py38" /\ cmd = "python" -> "/w/.tox/py38/bin/python"
      [] e = "py38" /\ cmd = "pip"    -> "/w/.tox/py38/bin/pip"
      [] e = "py39" /\ cmd = "python" -> "/w/.tox/py39/bin/python"
      [] OTHER                        -> "/w/.tox/py39/bin/pip"

\* VirtualEnv.getcommandpath as patched: each tox_testenv_create wraps the
\* class attribute once more; a wrapper answers "python" with the
\* interpreter it captured and passes any other command to what it wraps
RECURSIVE getcommandpath(_, _, _)
getcommandpath(wrappers, e, cmd) ==
    IF wrappers = <<>> THEN HostCommandPath(e, cmd)
    ELSE IF cmd = "python" THEN wrappers[Len(wrappers)]
    ELSE getcommandpath(SubSeq(wrappers, 1, Len(wrappers) - 1), e, cmd)

\* VirtualEnv.getcommandpath = patch_getcommandpath(VirtualEnv.getcommandpath)
patch_getcommandpath(wrappers, config_interpreter) ==
    Append(wrappers, config_interpreter)

InitCreate ==
    /\ patches = <<>>
    /\ env_files = [e \in Envs |-> {}]
    /\ pdm_use = [e \in Envs |-> Unregistered]
    /\ resolved = NoQuery

\* the hook; pcall_ok is the outcome of "pdm use -f <interpreter>", which
\* raises when it fails
tox_testenv_create(e, pcall_ok) ==
    /\ Len(patches) < MaxCreates
    /\ env_files' = [env_files EXCEPT ![e] = Manifests]
    /\ patches' = patch_getcommandpath(patches, Interpreter(e))
    /\ pdm_use' = IF pcall_ok THEN [pdm_use EXCEPT ![e] = Interpreter(e)]
                  ELSE pdm_use
    /\ UNCHANGED resolved
    /\ UNCHANGED <<depsVars, pkgVars>>

\* the host resolves a command of environment e
ResolveCommand(e, cmd) ==
    /\ resolved' = [venv |-> e, cmd |-> cmd,
                    value |-> getcommandpath(patches, e, cmd)]
    /\ UNCHANGED <<patches, env_files, pdm_use>>
    /\ UNCHANGED <<depsVars, pkgVars>>

NextCreate ==
    \/ \E e \in Envs, pcall_ok \in BOOLEAN : tox_testenv_create(e, pcall_ok)
    \/ \E e \in Envs, cmd \in Commands : ResolveCommand(e, cmd)

----------------------------------------------------------------------------
(* Specifications *)

InitSpecDeps == InitDeps /\ QuietPkg /\ InitCreate
SpecDeps == InitSpecDeps /\ [][NextDeps]_vars

InitSpecPkg == QuietDeps /\ InitPkg /\ InitCreate
SpecPkg == InitSpecPkg /\ [][NextPkg]_vars

\* every process keeps running: a blocked acquire is retried, a subprocess
\* ends, a with block is left
SpecPkgFair == SpecPkg /\ \A p \in Procs : WF_vars(Run(p))

InitSpecCreate == QuietDeps /\ QuietPkg /\ InitCreate
SpecCreate == InitSpecCreate /\ [][NextCreate]_vars

----------------------------------------------------------------------------
(* Properties of tox_testenv_install_deps, under SpecDeps                  *)

Called == last_call.result # "none"
HasPair(args, a, b) ==
    \E i \in 1..(Len(args) - 1) : args[i] = a /\ args[i + 1] = b
NotDefault(x) == x # "default"

\* C1 as stated: with skip_install true and an empty groups list the hook
\* constructs and executes an install command that contains --no-default and
\* no --group flag.
C1_SkipInstallNoGroupsCommand ==
    (Called /\ skip_install /\ last_call.groups = <<>>) =>
        /\ last_call.ran
        /\ "--no-default" \in Range(last_call.args)
        /\ "--group" \notin Range(last_call.args)

\* C1 as amended: with skip_install true and an empty groups list the hook
\* constructs and executes no install command at all; with skip_install
\* true, an install command is executed exactly when the groups list is not
\* empty, and it contains --no-default exactly when that list does not
\* contain "default".
C1_SkipInstallNoGroupsNoCommand ==
    (Called /\ skip_install) =>
        /\ last_call.ran <=> last_call.groups # <<>>
        /\ ~last_call.ran => last_call.args = NoArgs
        /\ last_call.ran =>
              ("--no-default" \in Range(last_call.args)
                  <=> "default" \notin Range(last_call.groups))

C1_Witness ==
    /\ Called /\ skip_install /\ last_call.groups = <<>>
    /\ last_call.result = "ok" /\ ~last_call.ran

\* C2: when the groups list holds "default" together with other group names,
\* whatever its position or multiplicity, the install command never contains
\* the adjacent pair --group default.
C2_NoGroupDefaultPair ==
    (/\ Called
     /\ "default" \in Range(last_call.groups)
     /\ Range(last_call.groups) # {"default"}) =>
        ~HasPair(last_call.args, "--group", "default")

\* C3: with skip_install false the install command is the prefix, one
\* --group <g> per requested group other than "default" in configured order,
\* and a final --no-self; it contains neither --no-default nor "default".
C3_InstallCommandWithoutSkip ==
    (Called /\ ~skip_install) =>
        /\ last_call.ran
        /\ "--no-default" \notin Range(last_call.args)
        /\ "default" \notin Range(last_call.args)
        /\ last_call.args =
              <<option_pdm, "install", "-p", venv_path>>
                  \o GroupFlags(SelectSeq(last_call.groups, NotDefault))
                  \o <<"--no-self">>

\* C10: the hook leaves venv.envconfig.groups unchanged, so every call on the
\* same environment constructs the argument vector the first call did.
C10_GroupsUnchanged ==
    Called =>
        /\ groups = last_call.groups
        /\ last_call.ran = first_call.ran
        /\ last_call.args = first_call.args

C6_Relocated ==
    LET scripts == ScriptsDir(os_name)
        others  == Dirs \ {bin_dir, scripts}
    IN  last_call'.result = "ok" =>
            IF last_call'.existed
            THEN /\ dir_entries'[bin_dir] = {}
                 /\ dir_entries'[scripts] =
                       dir_entries[scripts] \cup last_call'.listed
                 /\ dir_entries[bin_dir] \subseteq last_call'.listed
                 /\ \A d \in others : dir_entries'[d] = dir_entries[d]
            ELSE /\ dir_entries' = dir_entries
                 /\ ~bin_exists'

\* C6: when the hook reaches the relocation and <lib_path>/bin exists, every
\* entry of it is moved into the platform's scripts directory ("Scripts" on
\* nt, "bin" otherwise) and <lib_path>/bin is left empty; when it does not
\* exist nothing changes and the hook returns normally.
C6_ScriptsRelocated == [][C6_Relocated]_vars

C6_Witness ==
    /\ last_call.result = "ok" /\ last_call.existed
    /\ last_call.listed = ScriptNames
    /\ os_name = "nt"
    /\ dir_entries[bin_dir] = {}
    /\ ScriptNames \subseteq dir_entries[ScriptsDir("nt")]

----------------------------------------------------------------------------
(* Properties of tox_package, under SpecPkg and SpecPkgFair                *)

\* inside the with block of get_package
InSection(p) ==
    pc[p] \in {"empty", "create", "build", "visit", "view", "unlock"}

\* C4: with skipsdist true, tox_package completes without raising, takes no
\* build lock, runs no build and yields no artifact.
C4_SkipSdistNotAnError ==
    \A p \in Procs :
        skipsdist[p] =>
            /\ outcome[p].kind # "raised"
            /\ nbuilds[p] = 0
            /\ ~hasattr_package(p)

C5_Exclusive ==
    \A p \in Procs :
        InSection(p) =>
            /\ lock_holder[lock_file(p)] = p
            /\ \A q \in Procs \ {p} :
                  build_env[q] = build_env[p] => ~InSection(q)

\* C5: of the processes that share a working directory and isolated-build
\* environment name at most one at a time is inside the build section, the
\* lock is held for the whole section, and a process waiting for the lock
\* eventually gets it.
C5_BuildLock ==
    /\ []C5_Exclusive
    /\ \A p \in Procs : (pc[p] = "lock") ~> (lock_holder[lock_file(p)] = p)

C5_Witness ==
    \E p \in Procs, q \in Procs :
        /\ p # q
        /\ build_env[p] = build_env[q]
        /\ pc[p] = "build"
        /\ pc[q] = "lock"

\* tox_package has raised what the locked section raised
Failed(p) ==
    /\ pc[p] = "idle"
    /\ outcome[p].kind = "raised"
    /\ outcome[p].value # "TypeError"

C8_AfterFailure ==
    \A p \in Procs :
        Failed(p) =>
            /\ outcome[p].value = raised[p]
            /\ raised[p] \in {"InvocationError", "StopIteration"}
            /\ lock_holder[lock_file(p)] # p
            /\ ~hasattr_package(p)

C8_Retry ==
    \A p \in Procs :
        (Failed(p) /\ outcome'[p] # outcome[p]) => pc'[p] = "lock"

\* C8: when the environment registration or the build subprocess raises, or
\* no *.tar.gz exists after the build, tox_package raises that same error,
\* the lock is released and nothing is recorded on the session; the next
\* tox_package call of the session goes for the lock again.
C8_FailurePropagates == []C8_AfterFailure /\ [][C8_Retry]_vars

C8_Witness ==
    \E p \in Procs :
        /\ Failed(p)
        /\ outcome[p].value = "StopIteration"
        /\ nbuilds[p] = 2

\* C9 as stated: with skipsdist false the locked build section is entered at
\* most once in a session.
C9_BuildAttemptedAtMostOnce ==
    \A p \in Procs : ~skipsdist[p] => nbuilds[p] <= 1

C9_Recorded ==
    \A p \in Procs :
        /\ nbuilt[p] <= 1
        /\ hasattr_package(p) <=> nbuilt[p] = 1
        /\ hasattr_package(p) =>
              /\ pc[p] = "idle"
              /\ outcome[p] = Returned(session[p].package)

C9_Kept ==
    \A p \in Procs :
        hasattr_package(p) =>
            /\ session'[p] = session[p]
            /\ nbuilds'[p] = nbuilds[p]

\* C9 as amended: with skipsdist false the build succeeds at most once in a
\* session: once a call has recorded the package on the session, every later
\* call returns that same session package and the session never takes the
\* lock or builds again (attempts that failed before it may have repeated).
C9_BuiltAtMostOnce == []C9_Recorded /\ [][C9_Kept]_vars

C9_Witness ==
    \E p \in Procs :
        /\ hasattr_package(p)
        /\ nbuilt[p] = 1
        /\ Len(install_command[p]["py38"]) = 6
        /\ Len(install_command[p]["py39"]) = 6

----------------------------------------------------------------------------
(* Properties of tox_testenv_create, under SpecCreate                      *)

\* tox_testenv_create has run for environment e
Created(e) == env_files[e] # {}

\* C7: after any sequence of environment creations, "python" resolves for a
\* created environment E to E's own interpreter, not to the interpreter of an
\* environment created earlier or later.
C7_PythonIsOwnInterpreter ==
    (resolved.cmd = "python" /\ Created(resolved.venv)) =>
        resolved.value = Interpreter(resolved.venv)

====
